---- MODULE Spec2Model ----
(***************************************************************************)
(* Settlement engine of the deposit tasks (src/src/deposit/tasks.py):      *)
(* create_stellar_deposit, its three funding strategies, and the periodic  *)
(* check_trustlines loop, run by a pool of Celery workers against a shared *)
(* Transaction table and the Stellar ledger (Horizon).                     *)
(*                                                                         *)
(* A slot of the worker pool runs one task at a time; its steps are the    *)
(* accesses to what the workers share: the read of the record (with the    *)
(* status test on the object read), each save, each Horizon call.  The     *)
(* ledger account of the destination is chosen in the initial state and    *)
(* does not change during a behaviour; every Horizon call may fail.        *)
(*                                                                         *)
(* Amounts are integers counting units of 10^-8, one digit below the       *)
(* ledger's 7-decimal unit, so that round(x, 7) is a real rounding.        *)
(***************************************************************************)
EXTENDS Integers, Sequences, FiniteSets, TLC

\* ------------------------------------------------------------ bounds
\* Number of tasks the worker pool is given: create_stellar_deposit tasks
\* enqueued by the interactive flow and check_trustlines runs started by
\* the scheduler.
MaxStarts == 2

\* Transaction records of the table, and the slots of the worker pool: a
\* slot runs an interactive settlement task or a check_trustlines run.
Txs == {1, 2}
Procs == {"w1", "w2"}

\* ------------------------------------------------------------ constants
None == "None"
\* An unset amount_out, and a set one.
NoAmount == <<>>
Amount(a) == <<a>>
TRUSTLINE_FAILURE_XDR == "AAAAAAAAAGT/////AAAAAQAAAAAAAAAB////+gAAAAA="
SUCCESS_XDR == "AAAAAAAAAGQAAAAAAAAAAQAAAAAAAAABAAAAAAAAAAA="
\* Some other result_xdr a response can carry.
OTHER_XDR == "AAAAAAAAAGT////7AAAAAA=="
\* HTTP status "Resource Missing".
NotFound == 404

\* Transaction.STATUS
pending_anchor == "pending_anchor"
pending_stellar == "pending_stellar"
pending_trust == "pending_trust"
pending_user == "pending_user"
completed == "completed"
STATUS == {pending_anchor, pending_stellar, pending_trust, pending_user, completed}

\* transaction.asset of every record: the anchor's asset.
AssetCode == "USD"
AssetIssuer == "GANCHOR"

\* ------------------------------------------------------------ inputs
\* (amount_in, amount_fee) of the records, in units of 10^-8, and how the
\* value Python holds for amount_in - amount_fee lies to the decimal
\* value: Decimal operands hold it exactly; float operands hold the
\* nearest binary value, which is below or above a decimal that has no
\* finite binary form (2.15e-06 - 1e-07 is above 2.05e-06, 1.5e-07 is
\* below 1.5e-07).
Binary == {"exact", "below", "above"}
AmountCases == <<[amount_in |-> 200, amount_fee |-> 0, binary |-> "exact"],
                 [amount_in |-> 215, amount_fee |-> 10, binary |-> "exact"],
                 [amount_in |-> 215, amount_fee |-> 10, binary |-> "above"],
                 [amount_in |-> 15, amount_fee |-> 0, binary |-> "below"]>>
\* The records get two neighbouring cases of AmountCases.
AmountRotations == {0, 2}
\* status_eta of a record that is not settled yet.
InitialEtas == {3600}
\* Hashes Horizon may assign to an accepted envelope.
Hashes == {"h1"}
\* HTTP status codes a HorizonError may carry: the code tells 404 from
\* every other one.
ErrorCodes == {NotFound, 504}

\* Balance entries of a Horizon account: the native balance carries no
\* asset_code; ForeignLine has the asset's code under another issuer.
NativeBalance == [asset_type |-> "native"]
ForeignLine == [asset_type |-> "credit_alphanum4", asset_code |-> AssetCode,
                asset_issuer |-> "GOTHER"]
TrustLine == [asset_type |-> "credit_alphanum4", asset_code |-> AssetCode,
              asset_issuer |-> AssetIssuer]
\* State of the destination account on the ledger (the records are deposits
\* of one user): whether it exists, and its balances in the order Horizon
\* lists them.
Absent == [exists |-> FALSE, balances |-> <<>>]
Account(bs) == [exists |-> TRUE, balances |-> bs]
AccountStates == {Absent, Account(<<NativeBalance>>),
                  Account(<<NativeBalance, ForeignLine>>),
                  Account(<<ForeignLine, TrustLine, NativeBalance>>)}

VARIABLES
    db,         \* the Transaction table: id -> persisted record
    params,     \* id -> the fields no task changes (amount_in, amount_fee)
    account,    \* ledger state of the stellar_account the records pay to
    submitted,  \* envelopes handed to Builder.submit so far
    mode,       \* slot -> what it runs: "none", "task" or "run"
    pc,         \* slot -> position in what it runs
    tx,         \* slot -> id of the record of its current invocation
    loc,        \* slot -> its in-memory Transaction object
    resp,       \* slot -> outcome of the last Horizon call of its invocation
    queue,      \* slot -> records of its run's queryset not yet iterated
    bal,        \* slot -> balances of the current account not yet iterated
    scanAt,     \* slot -> id -> persisted status when its run's query ran
    starts      \* number of tasks and runs started so far

vars == <<db, params, account, submitted, mode, pc, tx, loc, resp, queue, bal,
          scanAt, starts>>

\* ------------------------------------------------------------ helpers
\* dict.get(key, None) of a balance entry.
Get(b, key) == IF key \in DOMAIN b THEN b[key] ELSE None

\* round(x, 7) of an amount x counted in units of 10^-8: the nearest
\* multiple of 10. Python rounds the value it holds: when x lies halfway
\* between two multiples, a value held exactly (Decimal) goes to the even
\* 7th digit, and a float goes down or up as its binary value is below or
\* above x.
Round7(x, binary) ==
    LET q == x \div 10
        r == x % 10
    IN  IF r < 5 THEN 10 * q
        ELSE IF r > 5 THEN 10 * (q + 1)
        ELSE IF binary = "below" THEN 10 * q
        ELSE IF binary = "above" THEN 10 * (q + 1)
        ELSE IF q % 2 = 0 THEN 10 * q ELSE 10 * (q + 1)

\* payment_amount of a record.
PaymentAmount(t) ==
    Round7(params[t].amount_in - params[t].amount_fee, params[t].binary)

\* A guard that lets pending_anchor through alone.
GuardStatusesOnlyAnchor == {pending_anchor}

\* A guard that lets pending_user through as well.
GuardStatusesAlsoUser == {pending_anchor, pending_trust, pending_user}

\* The statuses that pass the guard at the top of create_stellar_deposit.
GuardStatuses == {pending_anchor, pending_trust}

\* A filter that compares the asset code alone.
FilterFnCodeOnly(b) == Get(b, "asset_code") = AssetCode

\* filter_fn of create_stellar_deposit.
FilterFn(b) ==
    /\ Get(b, "asset_code") = AssetCode
    /\ Get(b, "asset_issuer") = AssetIssuer

\* trustlines = list(filter(filter_fn, address.balances))
Trustlines(balances) == SelectSeq(balances, FilterFn)

\* The strategy the body of the try block calls for an existing account.
SelectStrategy(balances) ==
    IF Len(Trustlines(balances)) = 0 THEN "notrust" ELSE "standard"

\* The assignments without the one of status_eta.
MarkCompletedKeepsEta(rec, hash, amount) ==
    [rec EXCEPT !.stellar_transaction_id = hash,
                !.status = completed,
                !.completed_at = "now",
                !.amount_out = Amount(amount)]

\* The assignments without the one of status.
MarkCompletedKeepsStatus(rec, hash, amount) ==
    [rec EXCEPT !.stellar_transaction_id = hash,
                !.completed_at = "now",
                !.status_eta = 0,
                !.amount_out = Amount(amount)]

\* The assignments of perform_standard_payment after a successful payment.
MarkCompleted(rec, hash, amount) ==
    [rec EXCEPT !.stellar_transaction_id = hash,
                !.status = completed,
                !.completed_at = "now",
                !.status_eta = 0,
                !.amount_out = Amount(amount)]

\* A queryset that takes the pending_anchor records too.
ScanStatusesAlsoAnchor == {pending_trust, pending_anchor}

\* The filter of the queryset of check_trustlines.
ScanStatuses == {pending_trust}

\* A test that reads the wrong key of the balance entry.
LoopMatchesWrongKey(b) == Get(b, "asset_type") = AssetCode

\* The test check_trustlines makes on one balance entry.
LoopMatches(b) == Get(b, "asset_code") = AssetCode

\* Outcomes of a Horizon call: none yet, a response, or a HorizonError.
NoResp == [call |-> "none", kind |-> "none", code |-> 0, xdr |-> None, hash |-> None]
Response(call, xdr, hash) ==
    [call |-> call, kind |-> "response", code |-> 200, xdr |-> xdr, hash |-> hash]
HorizonError(call, code, msg) ==
    [call |-> call, kind |-> "error", code |-> code, xdr |-> msg, hash |-> None]
SubmitOutcomes ==
    {Response("submit", SUCCESS_XDR, h) : h \in Hashes}
    \cup {Response("submit", OTHER_XDR, h) : h \in Hashes}
    \cup {HorizonError("submit", 400, TRUSTLINE_FAILURE_XDR)}
    \cup {HorizonError("submit", c, "error") : c \in ErrorCodes}

\* A test that takes every response for a success.
PaymentSucceededAlways(response) == response.kind = "response"

\* The test perform_standard_payment makes on the response of submit.
PaymentSucceeded(response) == response.xdr = SUCCESS_XDR

\* The accounts an operation names: the anchor's distribution account,
\* the freshly generated intermediate account, the record's
\* stellar_account.
Distribution == "distribution"
Intermediate == "intermediate"
Destination == "destination"
\* starting_balance of the intermediate account, in XLM.
StartingBalance == 40

\* An operation appended to a Builder; a field an operation does not
\* take is None (-1 for a weight).
Op(type, source, destination, amount, master, signer) ==
    [type |-> type, source |-> source, destination |-> destination,
     amount |-> amount, master_weight |-> master, signer_weight |-> signer]

\* The operation of perform_standard_payment: the Builder's own account
\* is the source.
StandardOps(t) ==
    <<Op("payment", Distribution, Destination, PaymentAmount(t), -1, -1)>>

\* The operations when requires_account_creation decides whether the
\* account is created.
ClaimableOpsHonoursFlag(t, requires_account_creation) ==
    (IF requires_account_creation
     THEN <<Op("create_account", Distribution, Intermediate, StartingBalance, -1, -1)>>
     ELSE <<>>)
    \o <<Op("change_trust", Intermediate, None, 0, -1, -1),
         Op("payment", Distribution, Intermediate, PaymentAmount(t), -1, -1),
         Op("set_options", Intermediate, Destination, 0, 0, 1)>>

\* The operations of create_claimable_account, in the order appended;
\* requires_account_creation is not read.
ClaimableOps(t, requires_account_creation) ==
    <<Op("create_account", Distribution, Intermediate, StartingBalance, -1, -1),
      Op("change_trust", Intermediate, None, 0, -1, -1),
      Op("payment", Distribution, Intermediate, PaymentAmount(t), -1, -1),
      Op("set_options", Intermediate, Destination, 0, 0, 1)>>

\* The operations and the signatures of the envelope a strategy builds:
\* builder.sign() signs with the distribution seed, builder.sign(seed)
\* with the intermediate account's.
EnvelopeOps(t, kind) ==
    IF kind = "standard" THEN StandardOps(t)
    ELSE ClaimableOps(t, kind = "bootstrap")
EnvelopeSigners(kind) ==
    IF kind = "standard" THEN <<Distribution>>
    ELSE <<Distribution, Intermediate>>

\* An envelope handed to Builder.submit: the record it settles, the slot
\* that built it, the strategy that built it, the amount of its payment,
\* its operations and its signatures.
Envelope(p, kind) ==
    [tx |-> tx[p], by |-> p, kind |-> kind, amount |-> PaymentAmount(tx[p]),
     ops |-> EnvelopeOps(tx[p], kind), signers |-> EnvelopeSigners(kind)]

\* Positions of a slot whose invocation of create_stellar_deposit ended:
\* the return at the guard, the return after the last save, a return that
\* saved nothing more, and an exception leaving the function.
Ended == {"ret_guard", "ret_completed", "ret_unresolved", "exc"}

NoRecord == [status |-> None, stellar_transaction_id |-> None,
             amount_out |-> NoAmount, completed_at |-> None, status_eta |-> 0]
NoScan == [t \in Txs |-> None]

\* ------------------------------------------------------------ initial state
\* A record as the interactive flow or an earlier settlement left it.
InitRecord(status, eta, amount) ==
    IF status = completed
    THEN [status |-> completed, stellar_transaction_id |-> "h0",
          amount_out |-> Amount(amount), completed_at |-> "now", status_eta |-> 0]
    ELSE [status |-> status, stellar_transaction_id |-> None,
          amount_out |-> NoAmount, completed_at |-> None, status_eta |-> eta]

InitStatuses == {pending_anchor, pending_trust, pending_user, completed}

\* What a record lacks of its build inputs: nothing, its amount
\* (amount_in is None) or its asset (asset is None).
Defects == {"none", "amount", "asset"}

\* round(transaction.amount_in - transaction.amount_fee, 7) evaluates.
AmountComputable(t) == params[t].defect # "amount"

\* transaction.asset.code evaluates.
AssetAvailable(t) == params[t].defect # "asset"

\* The build inputs of a record.
BuildInputs(case, defect) ==
    [amount_in |-> case.amount_in, amount_fee |-> case.amount_fee,
     binary |-> case.binary, defect |-> defect]

InitWith(defect) ==
    /\ \E k \in AmountRotations :
          params = [t \in Txs |->
                      BuildInputs(AmountCases[((t + k) % Len(AmountCases)) + 1],
                                  defect[t])]
    /\ \E st \in [Txs -> InitStatuses], eta \in [Txs -> InitialEtas] :
          db = [t \in Txs |-> InitRecord(st[t], eta[t],
                    PaymentAmount(t))]
    /\ account \in AccountStates
    /\ submitted = {}
    /\ mode = [p \in Procs |-> "none"]
    /\ pc = [p \in Procs |-> "idle"]
    /\ tx = [p \in Procs |-> 0]
    /\ loc = [p \in Procs |-> NoRecord]
    /\ resp = [p \in Procs |-> NoResp]
    /\ queue = [p \in Procs |-> {}]
    /\ bal = [p \in Procs |-> <<>>]
    /\ scanAt = [p \in Procs |-> NoScan]
    /\ starts = 0

\* Every record was validated by the interactive flow.
Init == InitWith([t \in Txs |-> "none"])

\* One record reached the table without its amount or without its asset;
\* such a record was never settled.
InitInputs ==
    \E bad \in Txs, d \in Defects \ {"none"} :
        /\ InitWith([t \in Txs |-> IF t = bad THEN d ELSE "none"])
        /\ db[bad].status # completed

\* ------------------------------------------------------------ create_stellar_deposit
\* The interactive flow enqueues create_stellar_deposit(t) and an idle
\* slot takes it.
Enqueue(p, t) ==
    /\ pc[p] = "idle"
    /\ starts < MaxStarts
    /\ starts' = starts + 1
    /\ mode' = [mode EXCEPT ![p] = "task"]
    /\ pc' = [pc EXCEPT ![p] = "read"]
    /\ tx' = [tx EXCEPT ![p] = t]
    /\ UNCHANGED <<db, params, account, submitted, loc, resp, queue, bal,
                   scanAt>>

\* transaction = Transaction.objects.get(id=transaction_id) and the status
\* test on the object read; a record that passes gets its status set in
\* memory.
Guard(p) ==
    /\ pc[p] = "read"
    /\ IF db[tx[p]].status \notin GuardStatuses
       THEN /\ pc' = [pc EXCEPT ![p] = "ret_guard"]
            /\ loc' = loc
       ELSE /\ pc' = [pc EXCEPT ![p] = "save"]
            /\ loc' = [loc EXCEPT ![p] = [db[tx[p]] EXCEPT !.status = pending_stellar]]
    /\ UNCHANGED <<db, params, account, submitted, mode, tx, resp, queue, bal,
                   scanAt, starts>>

\* transaction.save(): every field of the object in memory is written;
\* then payment_amount is computed, which raises TypeError for a record
\* without amount.
Save(p) ==
    /\ pc[p] = "save"
    /\ db' = [db EXCEPT ![tx[p]] = loc[p]]
    /\ IF AmountComputable(tx[p])
       THEN /\ pc' = [pc EXCEPT ![p] = "lookup"]
            /\ loc' = loc
       ELSE /\ pc' = [pc EXCEPT ![p] = "exc"]
            /\ loc' = [loc EXCEPT ![p] = NoRecord]
    /\ UNCHANGED <<params, account, submitted, mode, tx, resp, queue, bal,
                   scanAt, starts>>

\* address.get() and the choice of the strategy.
Lookup(p) ==
    /\ pc[p] = "lookup"
    /\ \/ \* Horizon fails with something other than 404: re-raised.
          \E c \in ErrorCodes \ {NotFound} :
            /\ resp' = [resp EXCEPT ![p] = HorizonError("get", c, "error")]
            /\ pc' = [pc EXCEPT ![p] = "exc"]
            /\ loc' = [loc EXCEPT ![p] = NoRecord]
       \/ \* the account does not exist: 404, create_claimable_account.
          /\ ~account.exists
          /\ resp' = [resp EXCEPT ![p] = HorizonError("get", NotFound, "error")]
          /\ pc' = [pc EXCEPT ![p] = "bootstrap"]
          /\ loc' = loc
       \/ \* the account exists: filter its balances; filter_fn raises
          \* AttributeError for a record without asset.
          /\ account.exists
          /\ resp' = [resp EXCEPT ![p] = Response("get", None, None)]
          /\ IF AssetAvailable(tx[p])
             THEN /\ pc' = [pc EXCEPT ![p] = SelectStrategy(account.balances)]
                  /\ loc' = loc
             ELSE /\ pc' = [pc EXCEPT ![p] = "exc"]
                  /\ loc' = [loc EXCEPT ![p] = NoRecord]
    /\ UNCHANGED <<db, params, account, submitted, mode, tx, queue, bal, scanAt,
                   starts>>

\* perform_standard_payment up to the return of builder.submit(), with
\* the handler of the enclosing try block for a HorizonError raised in it.
\* Builder() asks Horizon for the sequence number and the base fee of the
\* distribution account before anything is built; after a response with
\* SUCCESS_XDR the fields are assigned to the object in memory.
PerformStandardPayment(p) ==
    /\ pc[p] = "standard"
    /\ \/ \E c \in ErrorCodes :
            /\ resp' = [resp EXCEPT ![p] = HorizonError("builder", c, "error")]
            /\ submitted' = submitted
            /\ IF c # NotFound
               THEN /\ pc' = [pc EXCEPT ![p] = "exc"]
                    /\ loc' = [loc EXCEPT ![p] = NoRecord]
               ELSE /\ pc' = [pc EXCEPT ![p] = "bootstrap"]
                    /\ loc' = loc
       \/ /\ submitted' = submitted \cup {Envelope(p, "standard")}
          /\ \E o \in SubmitOutcomes :
              /\ resp' = [resp EXCEPT ![p] = o]
              /\ IF o.kind = "error"
                 THEN IF o.code # NotFound
                      THEN /\ pc' = [pc EXCEPT ![p] = "exc"]
                           /\ loc' = [loc EXCEPT ![p] = NoRecord]
                      ELSE /\ pc' = [pc EXCEPT ![p] = "bootstrap"]
                           /\ loc' = loc
                 ELSE IF ~PaymentSucceeded(o)
                      THEN /\ pc' = [pc EXCEPT ![p] = "ret_unresolved"]
                           /\ loc' = [loc EXCEPT ![p] = NoRecord]
                      ELSE /\ pc' = [pc EXCEPT ![p] = "save_completed"]
                           /\ loc' = [loc EXCEPT ![p] =
                                 MarkCompleted(loc[p], o.hash, PaymentAmount(tx[p]))]
    /\ UNCHANGED <<db, params, account, mode, tx, queue, bal, scanAt, starts>>

\* transaction.save() at the end of perform_standard_payment: every field
\* of the object in memory is written.
SaveCompleted(p) ==
    /\ pc[p] = "save_completed"
    /\ db' = [db EXCEPT ![tx[p]] = loc[p]]
    /\ pc' = [pc EXCEPT ![p] = "ret_completed"]
    /\ loc' = [loc EXCEPT ![p] = NoRecord]
    /\ UNCHANGED <<params, account, submitted, mode, tx, resp, queue, bal,
                   scanAt, starts>>

\* create_claimable_account, called directly (bootstrap) or through
\* perform_no_trust_payment. Builder() asks Horizon for the sequence number
\* and the base fee first: a HorizonError there is outside the function's
\* own try block, so from perform_no_trust_payment it reaches the handler
\* of the caller's try block (404: create_claimable_account is called
\* again) and from the handler itself it leaves the invocation. For a
\* record without asset append_change_trust_op's arguments raise
\* AttributeError before anything is submitted. A HorizonError of
\* builder.submit() is caught and the function returns; after a submission
\* that returns, the read of the unbound name `response` raises NameError
\* before any assignment.
CreateClaimableAccount(p) ==
    /\ pc[p] \in {"notrust", "bootstrap"}
    /\ \/ \E c \in ErrorCodes :
            /\ resp' = [resp EXCEPT ![p] = HorizonError("builder", c, "error")]
            /\ submitted' = submitted
            /\ IF pc[p] = "notrust" /\ c = NotFound
               THEN /\ pc' = [pc EXCEPT ![p] = "bootstrap"]
                    /\ loc' = loc
               ELSE /\ pc' = [pc EXCEPT ![p] = "exc"]
                    /\ loc' = [loc EXCEPT ![p] = NoRecord]
       \/ /\ ~AssetAvailable(tx[p])
          /\ pc' = [pc EXCEPT ![p] = "exc"]
          /\ loc' = [loc EXCEPT ![p] = NoRecord]
          /\ UNCHANGED <<submitted, resp>>
       \/ /\ AssetAvailable(tx[p])
          /\ submitted' = submitted \cup {Envelope(p, pc[p])}
          /\ loc' = [loc EXCEPT ![p] = NoRecord]
          /\ \E o \in SubmitOutcomes :
              /\ resp' = [resp EXCEPT ![p] = o]
              /\ IF o.kind = "error"
                 THEN pc' = [pc EXCEPT ![p] = "ret_unresolved"]
                 ELSE pc' = [pc EXCEPT ![p] = "exc"]
    /\ UNCHANGED <<db, params, account, mode, tx, queue, bal, scanAt, starts>>

\* The end of an invocation: a task's slot becomes idle; in a run the
\* call returns into the loop over the balances, or its exception leaves
\* check_trustlines.
Return(p) ==
    /\ pc[p] \in Ended
    /\ resp' = [resp EXCEPT ![p] = NoResp]
    /\ IF mode[p] = "run" /\ pc[p] # "exc"
       THEN /\ pc' = [pc EXCEPT ![p] = "balances"]
            /\ UNCHANGED <<mode, tx, queue, bal, scanAt>>
       ELSE /\ pc' = [pc EXCEPT ![p] = "idle"]
            /\ mode' = [mode EXCEPT ![p] = "none"]
            /\ tx' = [tx EXCEPT ![p] = 0]
            /\ queue' = [queue EXCEPT ![p] = {}]
            /\ bal' = [bal EXCEPT ![p] = <<>>]
            /\ scanAt' = [scanAt EXCEPT ![p] = NoScan]
    /\ UNCHANGED <<db, params, account, submitted, loc, starts>>

\* ------------------------------------------------------------ check_trustlines
\* The scheduler starts a run on an idle slot; its queryset is evaluated.
StartRun(p) ==
    /\ pc[p] = "idle"
    /\ starts < MaxStarts
    /\ starts' = starts + 1
    /\ mode' = [mode EXCEPT ![p] = "run"]
    /\ scanAt' = [scanAt EXCEPT ![p] = [t \in Txs |-> db[t].status]]
    /\ queue' = [queue EXCEPT ![p] = {t \in Txs : db[t].status \in ScanStatuses}]
    /\ pc' = [pc EXCEPT ![p] = "fetch"]
    /\ UNCHANGED <<db, params, account, submitted, tx, loc, resp, bal>>

\* The next record of the queryset and horizon.account() for it; the run
\* ends when the queryset is exhausted.
RunFetch(p) ==
    /\ pc[p] = "fetch"
    /\ IF queue[p] = {}
       THEN /\ pc' = [pc EXCEPT ![p] = "idle"]
            /\ mode' = [mode EXCEPT ![p] = "none"]
            /\ tx' = [tx EXCEPT ![p] = 0]
            /\ scanAt' = [scanAt EXCEPT ![p] = NoScan]
            /\ UNCHANGED <<queue, bal>>
       ELSE /\ \E t \in queue[p] :
                /\ queue' = [queue EXCEPT ![p] = @ \ {t}]
                /\ tx' = [tx EXCEPT ![p] = t]
                /\ \/ \* StellarError or HorizonError (404 for an absent
                      \* account), or a response without balances: continue.
                      /\ pc' = pc
                      /\ bal' = bal
                   \/ /\ account.exists
                      /\ bal' = [bal EXCEPT ![p] = account.balances]
                      /\ pc' = [pc EXCEPT ![p] = "balances"]
            /\ UNCHANGED <<mode, scanAt>>
    /\ UNCHANGED <<db, params, account, submitted, loc, resp, starts>>

\* One iteration of `for balance in balances`; a balance with the asset's
\* code calls create_stellar_deposit synchronously. For a record without
\* asset the comparison raises AttributeError, which leaves
\* check_trustlines.
RunBalance(p) ==
    /\ pc[p] = "balances"
    /\ IF bal[p] = <<>>
       THEN /\ pc' = [pc EXCEPT ![p] = "fetch"]
            /\ bal' = bal
            /\ UNCHANGED <<mode, tx, queue, scanAt>>
       ELSE IF "asset_code" \in DOMAIN Head(bal[p]) /\ ~AssetAvailable(tx[p])
       THEN /\ pc' = [pc EXCEPT ![p] = "idle"]
            /\ mode' = [mode EXCEPT ![p] = "none"]
            /\ tx' = [tx EXCEPT ![p] = 0]
            /\ queue' = [queue EXCEPT ![p] = {}]
            /\ bal' = [bal EXCEPT ![p] = <<>>]
            /\ scanAt' = [scanAt EXCEPT ![p] = NoScan]
       ELSE /\ bal' = [bal EXCEPT ![p] = Tail(@)]
            /\ IF "asset_code" \in DOMAIN Head(bal[p]) /\ LoopMatches(Head(bal[p]))
               THEN pc' = [pc EXCEPT ![p] = "read"]
               ELSE pc' = pc
            /\ UNCHANGED <<mode, tx, queue, scanAt>>
    /\ UNCHANGED <<db, params, account, submitted, loc, resp, starts>>

\* ------------------------------------------------------------ specification
Next ==
    \/ \E p \in Procs, t \in Txs : Enqueue(p, t)
    \/ \E p \in Procs : Guard(p)
    \/ \E p \in Procs : Save(p)
    \/ \E p \in Procs : Lookup(p)
    \/ \E p \in Procs : PerformStandardPayment(p)
    \/ \E p \in Procs : SaveCompleted(p)
    \/ \E p \in Procs : CreateClaimableAccount(p)
    \/ \E p \in Procs : Return(p)
    \/ \E p \in Procs : StartRun(p)
    \/ \E p \in Procs : RunFetch(p)
    \/ \E p \in Procs : RunBalance(p)

Spec == Init /\ [][Next]_vars

\* The same tasks over a table that holds a record with defective build
\* inputs.
SpecInputs == InitInputs /\ [][Next]_vars

\* ------------------------------------------------------------ claims
\* Envelopes handed to the ledger for record t.
SubmittedFor(t) == {e \in submitted : e.tx = t}

\* C1: of two invocations of create_stellar_deposit on the same record,
\* of which at least one passed the status guard and neither ended on a
\* Horizon error, exactly one submits to the ledger for the record: the
\* record is not submitted twice.
C1_ExactlyOneSubmission ==
    \A p \in Procs, q \in Procs :
        ( /\ p # q
          /\ pc[p] \in Ended /\ pc[q] \in Ended
          /\ tx[p] = tx[q]
          /\ pc[p] # "ret_guard"
          /\ resp[p].kind # "error" /\ resp[q].kind # "error" )
        => Cardinality({e.by : e \in SubmittedFor(tx[p])}) = 1

\* C2: an invocation that reads a status other than pending_anchor and
\* pending_trust returns at once: its steps change no record, submit no
\* envelope and make no Horizon call.
C2_GuardIsNoOp ==
    [][\A p \in Procs :
        /\ ( /\ pc[p] = "read"
             /\ db[tx[p]].status \in {pending_stellar, pending_user, completed}
             /\ pc'[p] # pc[p] )
           => ( /\ pc'[p] = "ret_guard"
                /\ db' = db
                /\ submitted' = submitted
                /\ resp'[p] = NoResp )
        /\ ( pc[p] = "ret_guard" /\ pc'[p] # pc[p] )
           => ( /\ db' = db
                /\ submitted' = submitted
                /\ pc'[p] \in {"idle", "balances"} )
      ]_vars

C2_Witness ==
    \E p \in Procs :
        /\ pc[p] = "ret_guard"
        /\ db[tx[p]].status \in {pending_user, completed}
        /\ SubmittedFor(tx[p]) = {}

\* Whether a balance list holds a trustline for the asset: code and issuer.
HoldsTrustline(balances) ==
    \E i \in DOMAIN balances :
        /\ DOMAIN balances[i] = DOMAIN TrustLine
        /\ balances[i].asset_code = AssetCode
        /\ balances[i].asset_issuer = AssetIssuer

\* C3: when the account lookup does not fail, the strategy called is
\* bootstrap for an absent account, standard payment for an account that
\* holds a trustline of the asset's code and issuer, and escrow funding
\* for an account that holds none.
C3_StrategyTable ==
    [][\A p \in Procs :
        ( pc[p] = "lookup" /\ pc'[p] \notin {"lookup", "exc"} )
        => pc'[p] = ( IF ~account.exists THEN "bootstrap"
                      ELSE IF HoldsTrustline(account.balances) THEN "standard"
                      ELSE "notrust" )
      ]_vars

C3_Witness ==
    \E p \in Procs :
        /\ pc[p] = "notrust"
        /\ account = Account(<<NativeBalance, ForeignLine>>)

\* C4: a standard payment whose submission returns the success result
\* code leaves the record completed, with the response's hash as ledger
\* transaction id, amount_out the 7-decimal value of amount_in - fee,
\* completed_at set and status_eta 0.
C4_StandardSuccess ==
    [][\A p \in Procs :
        /\ ( /\ pc[p] = "standard" /\ pc'[p] # pc[p]
             /\ resp'[p].kind = "response" /\ resp'[p].xdr = SUCCESS_XDR )
           => pc'[p] = "save_completed"
        /\ ( pc[p] = "save_completed" /\ pc'[p] # pc[p] )
           =>
           LET r == db'[tx[p]]
               d == params[tx[p]].amount_in - params[tx[p]].amount_fee
           IN  /\ pc'[p] = "ret_completed"
               /\ resp[p].xdr = SUCCESS_XDR
               /\ r.status = completed
               /\ r.stellar_transaction_id = resp'[p].hash
               /\ r.stellar_transaction_id # None
               /\ r.amount_out # NoAmount
               /\ r.amount_out[1] % 10 = 0
               /\ r.amount_out[1] - d \in -5..5
               /\ (d % 10 = 0 => r.amount_out[1] = d)
               /\ r.completed_at # None
               /\ r.status_eta = 0
      ]_vars

C4_Witness ==
    \E p \in Procs :
        /\ pc[p] = "ret_completed"
        /\ resp[p].xdr = SUCCESS_XDR
        /\ db[tx[p]].status = completed
        /\ db[tx[p]].stellar_transaction_id = resp[p].hash
        /\ HoldsTrustline(account.balances)

\* C5: an invocation on an existing account whose submission the ledger
\* rejected with TRUSTLINE_FAILURE_XDR ends with the record in
\* pending_trust and amount_out unset.
C5_TrustFailureParks ==
    \A p \in Procs :
        ( /\ pc[p] \in Ended
          /\ account.exists
          /\ resp[p].call = "submit"
          /\ resp[p].xdr = TRUSTLINE_FAILURE_XDR )
        => ( /\ db[tx[p]].status = pending_trust
             /\ db[tx[p]].amount_out = NoAmount )

\* The only envelope slot p submitted for its record is a bootstrap one.
Bootstrapped(p) ==
    /\ pc[p] \in Ended
    /\ resp[p].call = "submit"
    /\ \A e \in SubmittedFor(tx[p]) : e.by = p => e.kind = "bootstrap"

\* C6: after a lookup that returned 404, the record ends in pending_user
\* if the bootstrap submission succeeded and stays in pending_stellar if
\* it failed.
C6_BootstrapOutcome ==
    \A p \in Procs :
        Bootstrapped(p)
        => IF resp[p].kind = "response"
           THEN db[tx[p]].status = pending_user
           ELSE db[tx[p]].status = pending_stellar

\* C7: after a lookup that returned 404 and a bootstrap submission that
\* succeeded, the record is in pending_trust.
C7_BootstrapParksInPendingTrust ==
    \A p \in Procs :
        ( Bootstrapped(p) /\ resp[p].kind = "response" )
        => db[tx[p]].status = pending_trust

\* C8: a step of a check_trustlines run changes only records that were
\* in pending_trust when the run's query ran.
C8_RunTouchesOnlyPendingTrust ==
    [][\A p \in Procs, t \in Txs :
        ( mode[p] = "run" /\ pc'[p] # pc[p] /\ db'[t] # db[t] )
        => scanAt[p][t] = pending_trust
      ]_vars

C8_Witness ==
    \E p \in Procs, t \in Txs :
        /\ mode[p] = "run"
        /\ pc[p] = "ret_completed"
        /\ scanAt[p][tx[p]] = pending_trust
        /\ t # tx[p]
        /\ scanAt[p][t] \in {pending_user, completed}
        /\ db[t].status = scanAt[p][t]

\* C9: a run that meets a trustline for the record's asset in the
\* refreshed balances calls create_stellar_deposit for the record, and
\* when the ledger accepts the payment of that call with the success code
\* the call leaves the record completed.
C9_ReconcileCompletes ==
    [][\A p \in Procs :
        mode[p] = "run" =>
        /\ ( /\ pc[p] = "balances" /\ bal[p] # <<>> /\ bal'[p] # bal[p]
             /\ Head(bal[p]) = TrustLine )
           => ( pc'[p] = "read" /\ tx'[p] = tx[p] )
        /\ ( /\ pc[p] = "standard" /\ pc'[p] # pc[p]
             /\ resp'[p].kind = "response" /\ resp'[p].xdr = SUCCESS_XDR )
           => pc'[p] = "save_completed"
        /\ ( pc[p] = "save_completed" /\ pc'[p] # pc[p] )
           => ( pc'[p] = "ret_completed" /\ db'[tx[p]].status = completed )
      ]_vars

C9_Witness ==
    \E p \in Procs :
        /\ mode[p] = "run"
        /\ pc[p] = "ret_completed"
        /\ scanAt[p][tx[p]] = pending_trust
        /\ HoldsTrustline(account.balances)
        /\ db[tx[p]].status = completed

\* C10: in every persisted state of a record the ledger transaction id is
\* set if and only if the status is completed.
C10_TxIdIffCompleted ==
    \A t \in Txs :
        (db[t].stellar_transaction_id # None) <=> (db[t].status = completed)

C10_Witness ==
    \E t \in Txs, u \in Txs :
        /\ db[t].status = completed
        /\ db[t].stellar_transaction_id \in Hashes
        /\ db[u].status = pending_stellar
        /\ SubmittedFor(u) # {}
\* C11: an invocation whose strategy's submission the ledger accepted
\* with the success code leaves the record with amount_out set to the
\* 7-decimal value of amount_in - fee, whichever strategy built the
\* envelope.
C11_AmountOutForEveryStrategy ==
    \A p \in Procs :
        ( /\ pc[p] \in Ended
          /\ resp[p].call = "submit"
          /\ resp[p].kind = "response"
          /\ resp[p].xdr = SUCCESS_XDR )
        => LET d == params[tx[p]].amount_in - params[tx[p]].amount_fee
               out == db[tx[p]].amount_out
           IN  /\ out # NoAmount
               /\ out[1] % 10 = 0
               /\ out[1] - d \in -5..5

\* The edges of the status graph: pending_anchor -> pending_stellar ->
\* {completed, pending_trust, pending_user}, and the retry edges from
\* pending_trust and pending_user back into pending_stellar.
StatusEdges ==
    {<<pending_anchor, pending_stellar>>,
     <<pending_stellar, completed>>,
     <<pending_stellar, pending_trust>>,
     <<pending_stellar, pending_user>>,
     <<pending_trust, pending_stellar>>,
     <<pending_user, pending_stellar>>}

\* C12: every change of a record's persisted status follows an edge of
\* the status graph.
C12_StatusFollowsGraph ==
    [][\A t \in Txs :
        db'[t].status # db[t].status
        => <<db[t].status, db'[t].status>> \in StatusEdges
      ]_vars
\* C13: an invocation on a record in pending_trust or in pending_user
\* passes the guard and its save persists pending_stellar.
C13_BothRetryEligible ==
    [][\A p \in Procs :
        /\ ( /\ pc[p] = "read" /\ pc'[p] # pc[p]
             /\ db[tx[p]].status \in {pending_trust, pending_user} )
           => ( pc'[p] = "save" /\ loc'[p].status = pending_stellar )
        /\ ( pc[p] = "save" /\ pc'[p] # pc[p] )
           => db'[tx[p]].status = pending_stellar
      ]_vars

\* C13, amended: an invocation on a record in pending_trust passes the
\* guard and its save persists pending_stellar; an invocation on a record
\* in pending_user returns at the guard and leaves the record as it is.
C13_OnlyPendingTrustRetries ==
    [][\A p \in Procs :
        /\ ( /\ pc[p] = "read" /\ pc'[p] # pc[p]
             /\ db[tx[p]].status = pending_trust )
           => ( pc'[p] = "save" /\ loc'[p].status = pending_stellar )
        /\ ( pc[p] = "save" /\ pc'[p] # pc[p] )
           => db'[tx[p]].status = pending_stellar
        /\ ( /\ pc[p] = "read" /\ pc'[p] # pc[p]
             /\ db[tx[p]].status = pending_user )
           => ( pc'[p] = "ret_guard" /\ db' = db )
      ]_vars

C13_Witness ==
    \E p \in Procs, q \in Procs :
        /\ pc[p] = "lookup"
        /\ scanAt[p][tx[p]] = pending_trust
        /\ db[tx[p]].status = pending_stellar
        /\ pc[q] = "ret_guard"
        /\ db[tx[q]].status = pending_user

\* C14: an invocation that ended on a transient (non-404) failure of the
\* account read, or on a submission failure other than trust-missing,
\* returned normally, with the record persisted in pending_stellar and
\* its other fields as they were.
C14_FailureReturnsNormally ==
    \A p \in Procs :
        ( /\ pc[p] \in Ended
          /\ resp[p].kind = "error"
          /\ resp[p].xdr # TRUSTLINE_FAILURE_XDR
          /\ ~(resp[p].call = "get" /\ resp[p].code = NotFound) )
        => ( /\ pc[p] = "ret_unresolved"
             /\ db[tx[p]].status = pending_stellar
             /\ db[tx[p]].stellar_transaction_id = None
             /\ db[tx[p]].amount_out = NoAmount
             /\ db[tx[p]].completed_at = None
             /\ db[tx[p]].status_eta \in InitialEtas )

\* C16: the invocation check_trustlines makes for a record selects the
\* standard payment whenever its account lookup succeeds.
C16_RetrySelectsStandard ==
    \A p \in Procs :
        ( /\ mode[p] = "run"
          /\ resp[p].call = "get"
          /\ pc[p] \in {"standard", "notrust", "bootstrap"} )
        => pc[p] = "standard"

\* C19: at most one run of check_trustlines is in progress at a time.
C19_RunsNeverOverlap ==
    Cardinality({p \in Procs : mode[p] = "run"}) <= 1

\* C20: no step changes the status of a record persisted as completed,
\* or changes its ledger transaction id.
C20_CompletedIsFinal ==
    [][\A t \in Txs :
        db[t].status = completed
        => ( /\ db'[t].status = completed
             /\ db'[t].stellar_transaction_id = db[t].stellar_transaction_id )
      ]_vars
\* C15: a submission that returns a response whose result code is not
\* SUCCESS_XDR changes no record, whichever strategy built the envelope:
\* the record stays as the invocation saved it, in pending_stellar; and
\* an invocation marks a record completed only on SUCCESS_XDR.
C15_OnlySuccessCodeSettles ==
    [][\A p \in Procs :
        /\ ( /\ pc[p] \in {"standard", "notrust", "bootstrap"}
             /\ pc'[p] # pc[p]
             /\ resp'[p].kind = "response"
             /\ resp'[p].xdr # SUCCESS_XDR )
           => ( /\ db' = db
                /\ loc[p].status = pending_stellar
                /\ pc'[p] # "ret_completed" )
        /\ ( pc[p] # "ret_completed" /\ pc'[p] = "ret_completed" )
           => resp'[p].xdr = SUCCESS_XDR
      ]_vars

C15_Witness ==
    \E p \in Procs, q \in Procs :
        /\ pc[p] = "ret_unresolved"
        /\ resp[p].kind = "response"
        /\ resp[p].xdr = OTHER_XDR
        /\ db[tx[p]].status = pending_stellar
        /\ pc[q] = "exc"
        /\ resp[q].kind = "response"
        /\ resp[q].xdr = OTHER_XDR

\* The types of a sequence of operations.
OpTypes(ops) == [i \in DOMAIN ops |-> ops[i].type]

\* C17: every escrow-funding and every bootstrap envelope holds the same
\* four operations - create-account of the intermediate account,
\* establish-trust on it, payment from distribution to it, set-options
\* zeroing its master weight and giving the destination key weight 1 -
\* signed by the distribution and the intermediate keypair; every
\* standard-payment envelope holds one payment signed by the distribution
\* keypair alone.
C17_EnvelopeShapes ==
    \A e \in submitted :
        IF e.kind = "standard"
        THEN /\ OpTypes(e.ops) = <<"payment">>
             /\ e.ops[1].source = Distribution
             /\ e.ops[1].destination = Destination
             /\ e.signers = <<Distribution>>
        ELSE /\ OpTypes(e.ops) =
                    <<"create_account", "change_trust", "payment", "set_options">>
             /\ e.ops[1].destination = Intermediate
             /\ e.ops[2].source = Intermediate
             /\ e.ops[3].source = Distribution
             /\ e.ops[3].destination = Intermediate
             /\ e.ops[4].source = Intermediate
             /\ e.ops[4].master_weight = 0
             /\ e.ops[4].destination = Destination
             /\ e.ops[4].signer_weight = 1
             /\ e.signers = <<Distribution, Intermediate>>

C17_Witness ==
    /\ \E e \in submitted : e.kind = "bootstrap" /\ Len(e.ops) = 4
    /\ \E e \in submitted : e.kind = "standard" /\ Len(e.ops) = 1
\* C18: an invocation on a record with defective build inputs (no amount,
\* no asset) makes no call to Horizon - neither the account lookup nor a
\* submission - and no envelope is submitted for the record.
C18_FailsBeforeLedgerIO ==
    /\ \A p \in Procs :
          (tx[p] \in Txs /\ params[tx[p]].defect # "none")
              => resp[p].call = "none"
    /\ \A e \in submitted : params[e.tx].defect = "none"
\* C21: an invocation of create_stellar_deposit submits at most one
\* envelope: a step of the invocation that hands an envelope to submit is
\* never taken after a submission of the same invocation.
C21_OneEnvelopePerInvocation ==
    [][\A p \in Procs :
        ( /\ pc[p] \in {"standard", "notrust", "bootstrap"}
          /\ pc'[p] # pc[p]
          /\ resp'[p].call = "submit" )
        => resp[p].call # "submit"
      ]_vars

\* C22: a run of check_trustlines ends only when it has fetched every
\* record of its queryset: it never ends while a record it has not yet
\* fetched is in pending_trust and the destination account holds a
\* trustline for the asset.
C22_RunReachesEveryRecord ==
    [][\A p \in Procs, t \in Txs :
        ( /\ mode[p] = "run"
          /\ mode'[p] # "run"
          /\ account.exists
          /\ HoldsTrustline(account.balances) )
        => ~(t \in queue[p] /\ db[t].status = pending_trust)
      ]_vars
====
